---- MODULE Spec2Model ----
(***************************************************************************)
(* The OIDC consent submission handler (POST /oidc/consent) and the part   *)
(* of OIDCService it drives: an interaction is loaded by uid, classified   *)
(* by prompt, resolved against the user's decision, reconciled into a      *)
(* Grant, finalized through the provider engine and answered with a        *)
(* redirect or a JSON error.                                               *)
(*                                                                         *)
(* Conventions.  A JavaScript string is a TLA+ string, and "" stands for   *)
(* every falsy string value (undefined, null, the empty string): the code  *)
(* only ever tests these for truthiness.  A space separated string such as *)
(* a scope is the sequence of its pieces, the separator " " included.  An  *)
(* optional array or object is a record [def, val].                        *)
(***************************************************************************)
EXTENDS Integers, Sequences, FiniteSets, TLC

\* ---------------------------------------------------------------- bounds
\* Number of submissions (requests) that may be in flight together.
MaxSubmissions == 2

Subs == 1 .. MaxSubmissions

\* ------------------------------------------------------------ the world
Accounts == {"A", "B"}
KnownUid == "u1"
SecondUid == "u2"
KnownUids == {KnownUid, SecondUid}
UnknownUid == "u0"
RequestOrigin == "https://internal"
PublicOrigin == "https://public"

\* --------------------------------------------------------------- values
Some(v) == [def |-> TRUE, val |-> v]
Undefined == [def |-> FALSE, val |-> <<>>]

\* x || fallback for an optional array or object
OrElse(x, fallback) == IF x.def THEN x.val ELSE fallback

Range(f) == {f[i] : i \in DOMAIN f}

NoDuplicates(seq) == \A i, j \in DOMAIN seq : seq[i] = seq[j] => i = j

\* Array.prototype.join(' '): the pieces with a separator between them
RECURSIVE Join(_)
Join(arr) ==
  IF arr = <<>> THEN <<>>
  ELSE IF Len(arr) = 1 THEN <<arr[1]>>
  ELSE <<arr[1], " ">> \o Join(Tail(arr))

\* the tokens of a space separated string, in order
Tokens(str) == SelectSeq(str, LAMBDA t : t # " " /\ t # "")

\* append to `old` the elements of `new` that it does not hold yet
RECURSIVE Merge(_, _)
Merge(old, new) ==
  IF new = <<>> THEN old
  ELSE IF new[1] \in Range(old) THEN Merge(old, Tail(new))
  ELSE Merge(Append(old, new[1]), Tail(new))

\* ---------------------------------------------------------------- Grant
Indicators == {"api"}

NoResources == [i \in Indicators |-> <<>>]

NullGrant ==
  [jti |-> "", accountId |-> "", clientId |-> "", scope |-> <<>>,
   claims |-> <<>>, resources |-> NoResources]

\* a Grant constructed with the two ids in each other's place
NewGrantSwapped(accountId, clientId) ==
  [NullGrant EXCEPT !.accountId = clientId, !.clientId = accountId]

\* new provider.Grant({accountId, clientId}): unsaved, so without an id
NewGrant(accountId, clientId) ==
  [NullGrant EXCEPT !.accountId = accountId, !.clientId = clientId]

addOIDCScope(grant, scope) ==
  [grant EXCEPT !.scope = Merge(@, Tokens(scope))]

addOIDCClaims(grant, claims) ==
  [grant EXCEPT !.claims = Merge(@, claims)]

addResourceScope(grant, indicator, scope) ==
  [grant EXCEPT !.resources[indicator] = Merge(@, Tokens(scope))]

\* the id a save gives to a Grant that has none: fresh for every submission
NewJti(s) == "n" \o ToString(s)

\* Grant.save(): the id the Grant is stored under
SaveId(grant, s) == IF grant.jti = "" THEN NewJti(s) ELSE grant.jti

StoredGrants ==
  { [NullGrant EXCEPT !.jti = "g1", !.accountId = "A", !.clientId = "c1",
                      !.scope = <<"openid">>],
    [NullGrant EXCEPT !.jti = "g2", !.accountId = "B", !.clientId = "c1",
                      !.scope = <<"openid">>, !.claims = <<"email">>] }


\* ---------------------------------------------------- interaction details
PromptDetails(scope, claims, resourceScopes) ==
  [missingOIDCScope |-> scope, missingOIDCClaims |-> claims,
   missingResourceScopes |-> resourceScopes]

Interaction(name, promptDetails, grantId, sessionAccountId) ==
  [prompt |-> [name |-> name, details |-> promptDetails],
   params |-> [client_id |-> "c1"],
   grantId |-> grantId,
   session |-> [accountId |-> sessionAccountId]]

NothingMissing == PromptDetails(Undefined, Undefined, Undefined)

EmptyMissing == PromptDetails(Some(<<>>), Some(<<>>), Some(<<>>))

\* scopes the stored Grants hold already, twice over, and new ones
SomeMissing ==
  PromptDetails(Some(<<"openid", "profile", "openid">>), Some(<<"email", "name">>),
                Some(<< <<"api", <<"read">>>> >>))

PartlyMissing == PromptDetails(Some(<<"profile">>), Undefined, Some(<<>>))

\* scopes and claims none of the other details name
OtherMissing ==
  PromptDetails(Some(<<"offline_access">>), Some(<<"picture">>), Undefined)

\* the interactions the engine may have raised for KnownUid
Interactions ==
  { Interaction("login", NothingMissing, "", "A") }
  \cup { Interaction("consent", d, "g1", "A") :
           d \in {NothingMissing, EmptyMissing, SomeMissing, PartlyMissing} }
  \cup { Interaction("consent", SomeMissing, g, "A") : g \in {"", "g2", "gx"} }
  \cup { Interaction("consent", PartlyMissing, g, "") : g \in {"", "g1", "g2"} }
  \cup { Interaction("select_account", SomeMissing, "g1", "") }

NoDetails == Interaction("", NothingMissing, "", "")

\* ------------------------------------------------------ InteractionResult
NoResult ==
  [keys |-> {}, login |-> [accountId |-> "", remember |-> FALSE],
   consent |-> [grantId |-> ""], error |-> "", error_description |-> ""]

\* a login result that does not ask the engine to remember the session
LoginResultForgetful(userId) ==
  [NoResult EXCEPT !.keys = {"login"},
                   !.login = [accountId |-> userId, remember |-> FALSE]]

LoginResult(userId) ==
  [NoResult EXCEPT !.keys = {"login"},
                   !.login = [accountId |-> userId, remember |-> TRUE]]

\* a consent result carrying the id of a Grant that was never saved
ConsentResultUnsaved(grantId) ==
  [NoResult EXCEPT !.keys = {"consent"}, !.consent = [grantId |-> ""]]

ConsentResult(grantId) ==
  [NoResult EXCEPT !.keys = {"consent"}, !.consent = [grantId |-> grantId]]

CombinedResult(grantId, userId) ==
  [NoResult EXCEPT !.keys = {"consent", "login"},
                   !.consent = [grantId |-> grantId],
                   !.login = [accountId |-> userId, remember |-> TRUE]]

\* a denial reported with the code of an expired session
DeniedResultWrongCode ==
  [NoResult EXCEPT !.keys = {"error", "error_description"},
                   !.error = "invalid_request",
                   !.error_description = "User denied the authorization request"]

DeniedResult ==
  [NoResult EXCEPT !.keys = {"error", "error_description"},
                   !.error = "access_denied",
                   !.error_description = "User denied the authorization request"]

\* ------------------------------------------------------------- responses
NoUrl == [origin |-> "", path |-> ""]

NoResponse == [status |-> 0, error |-> "", error_description |-> "", location |-> NoUrl]

JsonError(status, error, description) ==
  [status |-> status, error |-> error, error_description |-> description,
   location |-> NoUrl]

RedirectTo(url) ==
  [status |-> 303, error |-> "", error_description |-> "", location |-> url]

\* the expired session answered as a server error
SessionExpiredAs500 ==
  JsonError(500, "server_error",
            "Authorization session expired or invalid, please restart the authorization flow")

SessionExpired ==
  JsonError(400, "invalid_request",
            "Authorization session expired or invalid, please restart the authorization flow")

\* the missing user answered as an expired session
NotAuthenticatedAs400 == JsonError(400, "invalid_request", "User is not authenticated")

NotAuthenticated == JsonError(401, "not_authenticated", "User is not authenticated")

MissingRedirect == JsonError(500, "server_error", "Internal redirect URL is missing")

\* the unusable instruction answered as a bad request
InvalidRedirectAs400 == JsonError(400, "invalid_request", "Invalid redirect URL from provider")

InvalidRedirect == JsonError(500, "server_error", "Invalid redirect URL from provider")

\* the outer catch answering with the status of a bad request
ProcessingErrorAs400 == JsonError(400, "server_error", "Error processing consent")

ProcessingError == JsonError(500, "server_error", "Error processing consent")

\* ------------------------------------------------------------------ URLs
\* the redirect instructions the engine may return: none, a relative path
\* and a string that is no URL
RedirectInstructions == {"", "/cb?code=1", "http://["}

\* new URL(input, base): a relative input needs a base ("" is none)
ParseURL(input, base) ==
  CASE input = "/cb?code=1" /\ base # "" ->
         [ok |-> TRUE, url |-> [origin |-> base, path |-> "/cb?code=1"]]
    [] OTHER -> [ok |-> FALSE, url |-> NoUrl]

\* the origin corrector: a URL on the internal origin is moved to the public one
correctOIDCUrl(url) ==
  IF url.origin = RequestOrigin THEN [url EXCEPT !.origin = PublicOrigin] ELSE url

\* lines 182-216 without the test of line 184: new URL("", origin) is the origin
RedirectResponseNoEmptyTest(internalRedirectUrlString, correctorThrows) ==
  IF internalRedirectUrlString = ""
  THEN RedirectTo(correctOIDCUrl([origin |-> RequestOrigin, path |-> "/"]))
  ELSE LET parsed == ParseURL(internalRedirectUrlString, RequestOrigin)
       IN  IF ~parsed.ok \/ correctorThrows THEN InvalidRedirect
           ELSE RedirectTo(correctOIDCUrl(parsed.url))

\* lines 182-216 parsing the instruction without the request origin as base
RedirectResponseNoBase(internalRedirectUrlString, correctorThrows) ==
  IF internalRedirectUrlString = "" THEN MissingRedirect
  ELSE LET parsed == ParseURL(internalRedirectUrlString, "")
       IN  IF ~parsed.ok \/ correctorThrows THEN InvalidRedirect
           ELSE RedirectTo(correctOIDCUrl(parsed.url))

\* lines 182-216 redirecting to the parsed URL as it is, uncorrected
RedirectResponseUncorrected(internalRedirectUrlString, correctorThrows) ==
  IF internalRedirectUrlString = "" THEN MissingRedirect
  ELSE LET parsed == ParseURL(internalRedirectUrlString, RequestOrigin)
       IN  IF ~parsed.ok THEN InvalidRedirect
           ELSE RedirectTo(parsed.url)

\* lines 182-216 of POST: from the engine's instruction to the response
RedirectResponse(internalRedirectUrlString, correctorThrows) ==
  IF internalRedirectUrlString = "" THEN MissingRedirect
  ELSE LET parsed == ParseURL(internalRedirectUrlString, RequestOrigin)
       IN  IF ~parsed.ok \/ correctorThrows THEN InvalidRedirect
           ELSE RedirectTo(correctOIDCUrl(parsed.url))

\* ---------------------------------------------------------------- engine
Returned(v) == [throws |-> "", value |-> v]
Thrown(kind) == [throws |-> kind, value |-> ""]

\* provider.interactionDetails through getInteractionDetails(uid)
InteractionDetailsOutcomes(u, isLive) ==
  {"other"}
  \cup (IF u \in KnownUids /\ isLive THEN {""} ELSE {"interaction session not found"})

\* provider.interactionResult through getInteractionResult(uid, result)
InteractionResultOutcomes(u, isLive) ==
  {Thrown("other")}
  \cup (IF u \in KnownUids /\ isLive
        THEN {Returned(i) : i \in RedirectInstructions}
        ELSE {Thrown("interaction session not found")})


\* ------------------------------------------------------------ Grant store
\* provider.Grant.find(id): the stored Grant, or NullGrant when there is none
GrantFind(store, id) ==
  IF \E g \in store : g.jti = id THEN CHOOSE g \in store : g.jti = id ELSE NullGrant

\* the store after grant.save() has written `grant` under `id`
GrantSave(store, grant, id) ==
  {g \in store : g.jti # id} \cup {[grant EXCEPT !.jti = id]}

\* findOrCreateGrants without the account check of lines 276-283
ReconcileGrantAnyOwner(found, accountId, clientId) ==
  IF found = NullGrant THEN NewGrant(accountId, clientId) ELSE found

\* OIDCService.findOrCreateGrants, given what Grant.find returned
ReconcileGrant(found, accountId, clientId) ==
  LET kept == IF found # NullGrant /\ found.accountId # ""
                   /\ found.accountId # accountId
              THEN NullGrant ELSE found
  IN  IF kept = NullGrant THEN NewGrant(accountId, clientId) ELSE kept

findOrCreateGrants(store, accountId, clientId, existingGrantId) ==
  ReconcileGrant(IF existingGrantId # "" THEN GrantFind(store, existingGrantId)
                 ELSE NullGrant,
                 accountId, clientId)

\* the for-of loop over Object.entries(missingResourceScopes)
RECURSIVE AddResourceScopes(_, _)
AddResourceScopes(grant, entries) ==
  IF entries = <<>> THEN grant
  ELSE AddResourceScopes(addResourceScope(grant, entries[1][1], Join(entries[1][2])),
                         Tail(entries))

\* step 3 writing the scope string itself instead of calling addOIDCScope
ApplyMissingAppending(grant, promptDetails) ==
  LET missingOIDCScope == OrElse(promptDetails.missingOIDCScope, <<>>)
      missingOIDCClaims == OrElse(promptDetails.missingOIDCClaims, <<>>)
      missingResourceScopes == OrElse(promptDetails.missingResourceScopes, <<>>)
  IN  AddResourceScopes(
        addOIDCClaims([grant EXCEPT !.scope = @ \o Tokens(Join(missingOIDCScope))],
                      missingOIDCClaims),
        missingResourceScopes)

\* step 3 without the call of addOIDCClaims
ApplyMissingWithoutClaims(grant, promptDetails) ==
  LET missingOIDCScope == OrElse(promptDetails.missingOIDCScope, <<>>)
      missingResourceScopes == OrElse(promptDetails.missingResourceScopes, <<>>)
  IN  AddResourceScopes(addOIDCScope(grant, Join(missingOIDCScope)),
                        missingResourceScopes)

\* step 3 joining scopes that are not there into the string "undefined"
ApplyMissingStringifying(grant, promptDetails) ==
  LET missingOIDCScope == OrElse(promptDetails.missingOIDCScope, <<"undefined">>)
      missingOIDCClaims == OrElse(promptDetails.missingOIDCClaims, <<"undefined">>)
      missingResourceScopes == OrElse(promptDetails.missingResourceScopes, <<>>)
  IN  AddResourceScopes(
        addOIDCClaims(addOIDCScope(grant, Join(missingOIDCScope)), missingOIDCClaims),
        missingResourceScopes)

\* step 3 of the consent branch: the three additions to the Grant
ApplyMissing(grant, promptDetails) ==
  LET missingOIDCScope == OrElse(promptDetails.missingOIDCScope, <<>>)
      missingOIDCClaims == OrElse(promptDetails.missingOIDCClaims, <<>>)
      missingResourceScopes == OrElse(promptDetails.missingResourceScopes, <<>>)
  IN  AddResourceScopes(
        addOIDCClaims(addOIDCScope(grant, Join(missingOIDCScope)), missingOIDCClaims),
        missingResourceScopes)

\* step 3 saving the Grant after the scopes already, and adding afterwards
ApplyCallsSavingEarly(promptDetails) ==
  <<"addOIDCScope", "Grant.save", "addOIDCClaims">>
  \o [i \in 1 .. Len(OrElse(promptDetails.missingResourceScopes, <<>>)) |->
        "addResourceScope"]

\* the Grant calls step 3 makes, in order
ApplyCalls(promptDetails) ==
  <<"addOIDCScope", "addOIDCClaims">>
  \o [i \in 1 .. Len(OrElse(promptDetails.missingResourceScopes, <<>>)) |->
        "addResourceScope"]

\* step 5 without the test that the session account is present
ConsentOutcomeAnyMismatch(sessionAccountId, userId, newGrantId) ==
  IF sessionAccountId # userId
  THEN CombinedResult(newGrantId, userId)
  ELSE ConsentResult(newGrantId)

\* step 5 of the consent branch: the result for the engine
ConsentOutcome(sessionAccountId, userId, newGrantId) ==
  IF sessionAccountId # "" /\ sessionAccountId # userId
  THEN CombinedResult(newGrantId, userId)
  ELSE ConsentResult(newGrantId)

\* ----------------------------------------------------------------- state
VARIABLES
  interaction,   \* per known uid: the details the engine raised (NoDetails: none)
  live,          \* per known uid: whether the engine's session store holds them
  grants,        \* the Grant store: the set of saved Grants
  pc,            \* per submission: where POST stands
  consent,       \* per submission: form field `consent`
  uid,           \* per submission: form field `uid`
  details,       \* per submission: the loaded interaction details
  userId,        \* per submission: getUserAuth().userId
  found,         \* per submission: what Grant.find returned
  grant,         \* per submission: the Grant object in hand
  newGrantId,    \* per submission: what grant.save() returned
  result,        \* per submission: the InteractionResult given to the engine
  internalRedirectUrlString, \* per submission: what the engine returned
  thrown,        \* per submission: the exception a collaborator raised
  response,      \* per submission: the HTTP response
  calls          \* per submission: the collaborator calls made, in order

vars ==
  <<interaction, live, grants, pc, consent, uid, details, userId, found, grant,
    newGrantId, result, internalRedirectUrlString, thrown, response, calls>>

NoThrow == [at |-> "", error |-> ""]

\* the engine's session store holds the details of uid u
IsLive(u) == u \in KnownUids /\ live[u]

\* no submission has arrived
Idle ==
  /\ pc = [s \in Subs |-> "start"]
  /\ consent = [s \in Subs |-> ""]
  /\ uid = [s \in Subs |-> ""]
  /\ details = [s \in Subs |-> NoDetails]
  /\ userId = [s \in Subs |-> ""]
  /\ found = [s \in Subs |-> NullGrant]
  /\ grant = [s \in Subs |-> NullGrant]
  /\ newGrantId = [s \in Subs |-> ""]
  /\ result = [s \in Subs |-> NoResult]
  /\ internalRedirectUrlString = [s \in Subs |-> ""]
  /\ thrown = [s \in Subs |-> NoThrow]
  /\ response = [s \in Subs |-> NoResponse]
  /\ calls = [s \in Subs |-> <<>>]

\* one pending interaction, for KnownUid
Init ==
  /\ interaction \in {[u \in KnownUids |-> IF u = KnownUid THEN i ELSE NoDetails] :
                        i \in Interactions}
  /\ live = [u \in KnownUids |-> interaction[u] # NoDetails]
  /\ grants = StoredGrants
  /\ Idle

\* two pending interactions of one session, for KnownUid and SecondUid: two
\* consent prompts of the same client and Grant that miss different things,
\* or a login prompt and a consent prompt
RaceInteractions ==
  { [u \in KnownUids |->
       IF u = KnownUid THEN Interaction("consent", SomeMissing, "g1", "A")
       ELSE Interaction("consent", OtherMissing, "g1", "A")],
    [u \in KnownUids |->
       IF u = KnownUid THEN Interaction("login", NothingMissing, "", "")
       ELSE Interaction("consent", OtherMissing, "g1", "")] }

RaceInit ==
  /\ interaction \in RaceInteractions
  /\ live = [u \in KnownUids |-> TRUE]
  /\ grants = StoredGrants
  /\ Idle

\* POST returns `resp`
Respond(s, resp) ==
  /\ pc' = [pc EXCEPT ![s] = "done"]
  /\ response' = [response EXCEPT ![s] = resp]

\* a collaborator throws and the outer catch (lines 217-227) answers
Fail(s, at, error) ==
  /\ thrown' = [thrown EXCEPT ![s] = [at |-> at, error |-> error]]
  /\ Respond(s, ProcessingError)

\* a finalize that calls the engine a second time before it looks at the outcome
FinalizeTwice(s, res) ==
  /\ result' = [result EXCEPT ![s] = res]
  /\ calls' = [calls EXCEPT ![s] = @ \o <<"interactionResult", "interactionResult">>]
  /\ \E out \in InteractionResultOutcomes(uid[s], IsLive(uid[s])) :
       IF out.throws # ""
       THEN /\ Fail(s, "interactionResult", out.throws)
            /\ UNCHANGED <<live, internalRedirectUrlString>>
       ELSE /\ internalRedirectUrlString' =
                 [internalRedirectUrlString EXCEPT ![s] = out.value]
            /\ \E consumed \in BOOLEAN :
                 live' = [live EXCEPT ![uid[s]] = @ /\ ~consumed]
            /\ \E correctorThrows \in BOOLEAN :
                 /\ correctorThrows => ParseURL(out.value, RequestOrigin).ok
                 /\ IF correctorThrows
                    THEN thrown' = [thrown EXCEPT ![s] =
                                      [at |-> "correctOIDCUrl", error |-> "other"]]
                    ELSE UNCHANGED thrown
                 /\ Respond(s, RedirectResponse(out.value, correctorThrows))

\* getInteractionResult(uid, res) and lines 182-216
Finalize(s, res) ==
  /\ result' = [result EXCEPT ![s] = res]
  /\ calls' = [calls EXCEPT ![s] = Append(@, "interactionResult")]
  /\ \E out \in InteractionResultOutcomes(uid[s], IsLive(uid[s])) :
       IF out.throws # ""
       THEN /\ Fail(s, "interactionResult", out.throws)
            /\ UNCHANGED <<live, internalRedirectUrlString>>
       ELSE /\ internalRedirectUrlString' =
                 [internalRedirectUrlString EXCEPT ![s] = out.value]
            /\ \E consumed \in BOOLEAN :
                 live' = [live EXCEPT ![uid[s]] = @ /\ ~consumed]
            /\ \E correctorThrows \in BOOLEAN :
                 /\ correctorThrows => ParseURL(out.value, RequestOrigin).ok
                 /\ IF correctorThrows
                    THEN thrown' = [thrown EXCEPT ![s] =
                                      [at |-> "correctOIDCUrl", error |-> "other"]]
                    ELSE UNCHANGED thrown
                 /\ Respond(s, RedirectResponse(out.value, correctorThrows))


\* -------------------------------------------------------------- actions
Consents == {"accept", "reject"}
\* the uids a client may submit: those the engine raised and one it never did
Uids == {u \in KnownUids : interaction[u] # NoDetails} \cup {UnknownUid}

\* Lines 46-81: the form is read, the service initialized and the
\* interaction details loaded.  Submissions are numbered as they arrive.
LoadDetails(s) ==
  /\ pc[s] = "start"
  /\ \A t \in Subs : t < s => pc[t] # "start"
  /\ UNCHANGED <<interaction, live, grants, userId, found, grant, newGrantId, result,
                 internalRedirectUrlString>>
  /\ \E early \in {"", "formData", "initialize"} :
       IF early # ""
       THEN /\ Fail(s, early, "other")
            /\ UNCHANGED <<consent, uid, details, calls>>
       ELSE \E c \in Consents, u \in Uids :
              /\ consent' = [consent EXCEPT ![s] = c]
              /\ uid' = [uid EXCEPT ![s] = u]
              /\ calls' = [calls EXCEPT ![s] = Append(@, "interactionDetails")]
              /\ \E error \in InteractionDetailsOutcomes(u, IsLive(u)) :
                   CASE error = "" ->
                          /\ details' = [details EXCEPT ![s] = interaction[u]]
                          /\ pc' = [pc EXCEPT ![s] = "loaded"]
                          /\ UNCHANGED <<thrown, response>>
                     [] error = "interaction session not found" ->
                          /\ thrown' = [thrown EXCEPT ![s] =
                                          [at |-> "interactionDetails", error |-> error]]
                          /\ Respond(s, SessionExpired)
                          /\ UNCHANGED details
                     [] OTHER ->
                          /\ Fail(s, "interactionDetails", error)
                          /\ UNCHANGED details

\* Lines 86-100: the accept branch asks who the user is
Authenticate(s) ==
  /\ pc[s] = "loaded"
  /\ consent[s] = "accept"
  /\ calls' = [calls EXCEPT ![s] = Append(@, "getUserAuth")]
  /\ UNCHANGED <<interaction, live, grants, consent, uid, details, found, grant,
                 newGrantId, result, internalRedirectUrlString>>
  /\ \E auth \in {Returned(a) : a \in Accounts \cup {""}} \cup {Thrown("other")} :
       IF auth.throws # ""
       THEN Fail(s, "getUserAuth", auth.throws) /\ UNCHANGED userId
       ELSE /\ userId' = [userId EXCEPT ![s] = auth.value]
            /\ IF auth.value = ""
               THEN Respond(s, NotAuthenticated) /\ UNCHANGED thrown
               ELSE pc' = [pc EXCEPT ![s] = "authed"] /\ UNCHANGED <<thrown, response>>

\* Lines 102-106: the login prompt
AcceptLogin(s) ==
  /\ pc[s] = "authed"
  /\ details[s].prompt.name = "login"
  /\ Finalize(s, LoginResult(userId[s]))
  /\ UNCHANGED <<interaction, grants, consent, uid, details, userId, found, grant,
                 newGrantId>>

\* Lines 107-119 and 266-296: every other prompt finds or creates its Grant
FindOrCreateGrants(s) ==
  /\ pc[s] = "authed"
  /\ details[s].prompt.name # "login"
  /\ UNCHANGED <<interaction, live, grants, consent, uid, details, userId, newGrantId,
                 result, internalRedirectUrlString>>
  /\ LET clientId == details[s].params.client_id
         existingGrantId == details[s].grantId
         loaded == IF existingGrantId # "" THEN GrantFind(grants, existingGrantId)
                   ELSE NullGrant
         made == findOrCreateGrants(grants, userId[s], clientId, existingGrantId)
     IN  \E findThrows \in BOOLEAN :
           /\ findThrows => existingGrantId # ""
           /\ calls' = [calls EXCEPT ![s] =
                 @ \o <<"findOrCreateGrants">>
                   \o (IF existingGrantId # "" THEN <<"Grant.find">> ELSE <<>>)
                   \o (IF ~findThrows /\ made.jti = "" THEN <<"new Grant">> ELSE <<>>)]
           /\ IF findThrows
              THEN Fail(s, "Grant.find", "other") /\ UNCHANGED <<found, grant>>
              ELSE /\ found' = [found EXCEPT ![s] = loaded]
                   /\ grant' = [grant EXCEPT ![s] = made]
                   /\ pc' = [pc EXCEPT ![s] = "granted"]
                   /\ UNCHANGED <<thrown, response>>

\* Lines 121-144: the missing scopes and claims are added and the Grant saved
ApplyAndSave(s) ==
  /\ pc[s] = "granted"
  /\ UNCHANGED <<interaction, live, consent, uid, details, userId, found, result,
                 internalRedirectUrlString>>
  /\ LET applied == ApplyMissing(grant[s], details[s].prompt.details)
         id == SaveId(applied, s)
     IN  \E failing \in {"", "addOIDCScope", "Grant.save"} :
           CASE failing = "addOIDCScope" ->
                  /\ calls' = [calls EXCEPT ![s] = Append(@, "addOIDCScope")]
                  /\ Fail(s, "addOIDCScope", "other")
                  /\ UNCHANGED <<grants, grant, newGrantId>>
             [] failing = "Grant.save" ->
                  /\ calls' = [calls EXCEPT ![s] =
                        @ \o ApplyCalls(details[s].prompt.details) \o <<"Grant.save">>]
                  /\ grant' = [grant EXCEPT ![s] = applied]
                  /\ Fail(s, "Grant.save", "other")
                  /\ UNCHANGED <<grants, newGrantId>>
             [] OTHER ->
                  /\ calls' = [calls EXCEPT ![s] =
                        @ \o ApplyCalls(details[s].prompt.details) \o <<"Grant.save">>]
                  /\ grant' = [grant EXCEPT ![s] = [applied EXCEPT !.jti = id]]
                  /\ grants' = GrantSave(grants, applied, id)
                  /\ newGrantId' = [newGrantId EXCEPT ![s] = id]
                  /\ pc' = [pc EXCEPT ![s] = "saved"]
                  /\ UNCHANGED <<thrown, response>>

\* Lines 146-168: the consent result, plain or combined with a login
AcceptConsent(s) ==
  /\ pc[s] = "saved"
  /\ Finalize(s, ConsentOutcome(details[s].session.accountId, userId[s], newGrantId[s]))
  /\ UNCHANGED <<interaction, grants, consent, uid, details, userId, found, grant,
                 newGrantId>>

\* Lines 171-180: anything but "accept" is a denial
Reject(s) ==
  /\ pc[s] = "loaded"
  /\ consent[s] # "accept"
  /\ Finalize(s, DeniedResult)
  /\ UNCHANGED <<interaction, grants, consent, uid, details, userId, found, grant,
                 newGrantId>>

Next ==
  \E s \in Subs :
    \/ LoadDetails(s)
    \/ Authenticate(s)
    \/ AcceptLogin(s)
    \/ FindOrCreateGrants(s)
    \/ ApplyAndSave(s)
    \/ AcceptConsent(s)
    \/ Reject(s)

Spec == Init /\ [][Next]_vars


RaceSpec == RaceInit /\ [][Next]_vars

\* ------------------------------------------------------------ properties
GrantCalls ==
  {"findOrCreateGrants", "Grant.find", "new Grant", "addOIDCScope", "addOIDCClaims",
   "addResourceScope", "Grant.save"}

Called(s, name) == name \in Range(calls[s])

DetailsLoaded(s) == pc[s] # "start" /\ details[s] # NoDetails

Denied(s) == DetailsLoaded(s) /\ consent[s] # "accept"

\* C1: a submission whose details load and whose consent is not "accept"
\* hands the engine exactly {error: "access_denied", error_description:
\* "User denied the authorization request"} and makes no Grant call at all.
C1_DenialResult ==
  \A s \in Subs :
    Denied(s) =>
      /\ Range(calls[s]) \cap GrantCalls = {}
      /\ newGrantId[s] = ""
      /\ Called(s, "interactionResult") <=> pc[s] = "done"
      /\ pc[s] = "done" =>
           /\ result[s].keys = {"error", "error_description"}
           /\ result[s].error = "access_denied"
           /\ result[s].error_description = "User denied the authorization request"

C1_Witness ==
  \E s \in Subs :
    /\ Denied(s)
    /\ pc[s] = "done"
    /\ details[s].prompt.name = "consent"
    /\ result[s].error = "access_denied"
    /\ response[s].status = 303

AcceptedConsentFinalized(s) ==
  /\ consent[s] = "accept"
  /\ DetailsLoaded(s)
  /\ details[s].prompt.name = "consent"
  /\ Called(s, "interactionResult")

SessionDiffers(s) ==
  details[s].session.accountId # "" /\ details[s].session.accountId # userId[s]

\* C2: an accepted consent prompt finalizes with {consent: {grantId}, login:
\* {accountId: userId, remember: true}} when the interaction's session account
\* is present and is not the user, and with exactly {consent: {grantId}}
\* when it is absent or is the user.
C2_ResyncResult ==
  \A s \in Subs :
    AcceptedConsentFinalized(s) =>
      /\ result[s].consent.grantId = newGrantId[s]
      /\ newGrantId[s] # ""
      /\ IF SessionDiffers(s)
         THEN /\ result[s].keys = {"consent", "login"}
              /\ result[s].login.accountId = userId[s]
              /\ result[s].login.remember = TRUE
         ELSE result[s].keys = {"consent"}

C2_Witness ==
  \E s, t \in Subs :
    /\ AcceptedConsentFinalized(s) /\ SessionDiffers(s)
    /\ result[s].keys = {"consent", "login"}
    /\ AcceptedConsentFinalized(t) /\ ~SessionDiffers(t)
    /\ result[t].keys = {"consent"}


\* the submission loaded a Grant that belongs to another account
ForeignGrant(s) ==
  /\ pc[s] \in {"granted", "saved", "done"}
  /\ Called(s, "Grant.find")
  /\ thrown[s].at # "Grant.find"
  /\ found[s] # NullGrant
  /\ found[s].accountId # ""
  /\ found[s].accountId # userId[s]

\* the step is one of submission s
StepOf(s) == pc'[s] # pc[s]

\* C3: a submission by account B whose interaction references a Grant of
\* account A never adds to or saves that Grant and never returns its id: the
\* Grant in hand is a fresh one for (B, client_id), the saved id is new, and
\* the step that saves leaves the stored Grant of A as it was.
C3_ForeignGrantUntouched ==
  [][\A s \in Subs :
       ForeignGrant(s)' =>
         /\ Called(s, "new Grant")'
         /\ grant'[s].accountId = userId'[s]
         /\ grant'[s].clientId = details'[s].params.client_id
         /\ grant'[s].jti # found'[s].jti
         /\ newGrantId'[s] # found'[s].jti
         /\ result'[s].consent.grantId # found'[s].jti
         /\ pc'[s] \in {"saved", "done"} /\ newGrantId'[s] # "" =>
              /\ newGrantId'[s] = NewJti(s)
              /\ \E g \in grants' : g.jti = NewJti(s) /\ g.accountId = userId'[s]
         /\ StepOf(s) =>
              GrantFind(grants', found'[s].jti) = GrantFind(grants, found'[s].jti)
    ]_vars

C3_Witness ==
  \E s \in Subs :
    /\ ForeignGrant(s)
    /\ found[s].jti = "g1" /\ found[s].accountId = "A" /\ userId[s] = "B"
    /\ pc[s] = "done"
    /\ result[s].consent.grantId = NewJti(s)
    /\ GrantFind(grants, NewJti(s)).accountId = "B"
    /\ GrantFind(grants, "g1") \in StoredGrants

\* C4: when getInteractionDetails fails with interaction-not-found the
\* submission ends in HTTP 400 invalid_request, whatever the consent field,
\* and nothing else ran: no auth lookup, no Grant call, no finalize call.
C4_ExpiredSession ==
  \A s \in Subs :
    (thrown[s].at = "interactionDetails"
       /\ thrown[s].error = "interaction session not found") =>
      /\ pc[s] = "done"
      /\ response[s].status = 400
      /\ response[s].error = "invalid_request"
      /\ calls[s] = <<"interactionDetails">>
      /\ result[s].keys = {}
      /\ newGrantId[s] = ""
      /\ grant[s] = NullGrant

\* the uid expired because another submission finalized the interaction
C4_Witness ==
  \E s, t \in Subs :
    /\ response[s].status = 303
    /\ uid[t] = KnownUid /\ consent[t] = "accept"
    /\ thrown[t].at = "interactionDetails"
    /\ thrown[t].error = "interaction session not found"
    /\ response[t].status = 400
    /\ calls[t] = <<"interactionDetails">>

\* getUserAuth returned no user
NoUser(s) ==
  /\ Called(s, "getUserAuth")
  /\ thrown[s].at # "getUserAuth"
  /\ userId[s] = ""

\* C5: an accept submission for a known uid without an authenticated user
\* ends in HTTP 401 not_authenticated for every prompt, and no Grant call
\* and no finalize call is made.
C5_NotAuthenticated ==
  \A s \in Subs :
    NoUser(s) =>
      /\ pc[s] = "done"
      /\ response[s].status = 401
      /\ response[s].error = "not_authenticated"
      /\ calls[s] = <<"interactionDetails", "getUserAuth">>
      /\ result[s].keys = {}
      /\ newGrantId[s] = ""

C5_Witness ==
  \E s \in Subs :
    /\ NoUser(s)
    /\ consent[s] = "accept"
    /\ details[s].prompt.name \in {"login", "consent"}
    /\ response[s].status = 401


\* the submission saved its Grant
Saved(s) == pc[s] \in {"saved", "done"} /\ newGrantId[s] # ""

\* the token sets of a Grant: OIDC scopes, claims, scopes per indicator
Consented(g) == [scope |-> g.scope, claims |-> g.claims, resources |-> g.resources]

NoDuplicateTokens(g) ==
  /\ NoDuplicates(g.scope)
  /\ NoDuplicates(g.claims)
  /\ \A i \in Indicators : NoDuplicates(g.resources[i])

\* t repeats s: same interaction, same account, and the Grant t loaded is the
\* one s saved
Repeats(t, s) ==
  /\ s # t
  /\ Saved(s) /\ Saved(t)
  /\ details[s].prompt.name = "consent"
  /\ details[t] = details[s]
  /\ userId[t] = userId[s]
  /\ found[t] = grant[s]

\* C6: when a second identical accept submission of a consent prompt reuses
\* the Grant the first one saved, the Grant it saves has the same id and the
\* same OIDC scopes, claims and resource scopes as after the first, and no
\* token appears twice.
C6_IdempotentConsent ==
  \A s, t \in Subs :
    Repeats(t, s) =>
      /\ newGrantId[t] = newGrantId[s]
      /\ Consented(grant[t]) = Consented(grant[s])
      /\ NoDuplicateTokens(grant[s])
      /\ NoDuplicateTokens(grant[t])
      /\ pc[t] = "saved" => Consented(GrantFind(grants, newGrantId[t])) = Consented(grant[s])

C6_Witness ==
  \E s, t \in Subs :
    /\ Repeats(t, s)
    /\ details[s].prompt.details = SomeMissing
    /\ found[s] # NullGrant
    /\ Consented(grant[s]) # Consented(found[s])
    /\ grant[t].scope = <<"openid", "profile">>
    /\ grant[t].resources["api"] = <<"read">>
    /\ pc[t] = "done"

\* an accepted login prompt that reached the finalize call
AcceptedLoginFinalized(s) ==
  /\ consent[s] = "accept"
  /\ DetailsLoaded(s)
  /\ details[s].prompt.name = "login"
  /\ userId[s] # ""
  /\ pc[s] = "done"

\* the engine returned an instruction that parsed and was corrected
RedirectObtained(s) ==
  /\ Called(s, "interactionResult")
  /\ thrown[s] = NoThrow
  /\ internalRedirectUrlString[s] # ""
  /\ ParseURL(internalRedirectUrlString[s], RequestOrigin).ok

\* C7 as stated: every accepted login prompt of an authenticated user ends in
\* a redirect.
C7_LoginAlwaysRedirects ==
  \A s \in Subs : AcceptedLoginFinalized(s) => response[s].status = 303

\* C7: an accepted login prompt of an authenticated user hands the engine
\* exactly {login: {accountId: userId, remember: true}}, touches no Grant,
\* and ends in a 303 redirect whenever the engine returns an instruction
\* that parses and the origin corrector does not throw.
C7_LoginResult ==
  \A s \in Subs :
    AcceptedLoginFinalized(s) =>
      /\ result[s].keys = {"login"}
      /\ result[s].login.accountId = userId[s]
      /\ result[s].login.remember = TRUE
      /\ Range(calls[s]) \cap GrantCalls = {}
      /\ grant[s] = NullGrant /\ newGrantId[s] = ""
      /\ RedirectObtained(s) => response[s].status = 303

C7_Witness ==
  \E s \in Subs :
    /\ AcceptedLoginFinalized(s)
    /\ RedirectObtained(s)
    /\ result[s].login.accountId = "B"
    /\ response[s].status = 303
    /\ grants = StoredGrants


SessionNotFound(s) == thrown[s].error = "interaction session not found"

\* C8: a submission the engine rejects because the interaction is gone, at
\* interactionDetails or at interactionResult, ends in HTTP 400
\* invalid_request, and the rejected call is not made again.
C8_RejectionIsSessionExpired ==
  \A s \in Subs :
    SessionNotFound(s) =>
      /\ response[s].status = 400
      /\ response[s].error = "invalid_request"
      /\ Len(SelectSeq(calls[s], LAMBDA c : c = thrown[s].at)) = 1

\* how far a submission has come
Rank(p) ==
  CASE p = "start" -> 0
    [] p = "loaded" -> 1
    [] p = "authed" -> 2
    [] p = "granted" -> 3
    [] p = "saved" -> 4
    [] p = "done" -> 5

\* some step of POST is open to submission s
CanStep(s) ==
  \/ ENABLED Authenticate(s)
  \/ ENABLED AcceptLogin(s)
  \/ ENABLED FindOrCreateGrants(s)
  \/ ENABLED ApplyAndSave(s)
  \/ ENABLED AcceptConsent(s)
  \/ ENABLED Reject(s)

Collaborators ==
  {"formData", "initialize", "interactionDetails", "getUserAuth", "Grant.find",
   "addOIDCScope", "Grant.save", "interactionResult"}

\* C9: a submission ends with one response of status 303, 400, 401 or 500:
\* it has none before it is done, every step takes it further towards done
\* and a step is open until then, the response never changes afterwards, and
\* an exception of a collaborator other than interaction-not-found from
\* interactionDetails ends it in HTTP 500 server_error.
C9_OneResponse ==
  /\ [](\A s \in Subs :
          /\ pc[s] = "done" <=> response[s].status # 0
          /\ response[s].status \in {0, 303, 400, 401, 500}
          /\ pc[s] \notin {"start", "done"} => CanStep(s)
          /\ (thrown[s].at \in Collaborators
                /\ ~(thrown[s].at = "interactionDetails" /\ SessionNotFound(s))) =>
               /\ response[s].status = 500
               /\ response[s].error = "server_error")
  /\ [][\A s \in Subs :
          /\ StepOf(s) => Rank(pc'[s]) > Rank(pc[s])
          /\ pc[s] = "done" => response'[s] = response[s] /\ calls'[s] = calls[s]
       ]_vars

C9_Witness ==
  \E s, t \in Subs :
    /\ thrown[s].at = "Grant.save" /\ response[s].status = 500
    /\ thrown[t].at = "interactionResult" /\ response[t].status = 500
    /\ thrown[t].error = "other"

\* a denial for which the engine returned an instruction that parses
DeniedWithInstruction(s) ==
  /\ Denied(s)
  /\ pc[s] = "done"
  /\ thrown[s].at # "interactionResult"
  /\ internalRedirectUrlString[s] # ""
  /\ ParseURL(internalRedirectUrlString[s], RequestOrigin).ok

\* C10 as stated: a denial whose finalize call returns a non-empty, parsable
\* instruction ends in HTTP 303.
C10_DenialAlwaysRedirects ==
  \A s \in Subs : DeniedWithInstruction(s) => response[s].status = 303

\* C10: a denial whose finalize call returns a non-empty, parsable
\* instruction ends in HTTP 303 unless the origin corrector throws, and then
\* in HTTP 500; it never ends in 400 or 401 and never asks who the user is.
C10_DenialRedirects ==
  \A s \in Subs :
    /\ Denied(s) => ~Called(s, "getUserAuth") /\ response[s].status # 401
    /\ DeniedWithInstruction(s) =>
         /\ thrown[s].at # "correctOIDCUrl" => response[s].status = 303
         /\ thrown[s].at = "correctOIDCUrl" => response[s].status = 500
         /\ response[s].status \notin {400, 401}

C10_Witness ==
  \E s, t \in Subs :
    /\ DeniedWithInstruction(s) /\ response[s].status = 303
    /\ response[s].location.path = "/cb?code=1"
    /\ DeniedWithInstruction(t) /\ thrown[t].at = "correctOIDCUrl"
    /\ response[t].status = 500


\* the engine's finalize call returned (it did not throw) in submission s
FinalizeReturned(s) ==
  /\ pc[s] = "done"
  /\ Called(s, "interactionResult")
  /\ thrown[s].at # "interactionResult"

\* C11: when the finalize call returns an empty or undefined instruction, on
\* the login, consent, combined or denial path, the submission ends in HTTP
\* 500 server_error, not in 303, 400 or 401.
C11_MissingInstruction ==
  \A s \in Subs :
    (FinalizeReturned(s) /\ internalRedirectUrlString[s] = "") =>
      /\ result[s].keys \in {{"login"}, {"consent"}, {"consent", "login"},
                             {"error", "error_description"}}
      /\ response[s].status = 500
      /\ response[s].error = "server_error"
      /\ response[s].error_description = "Internal redirect URL is missing"
      /\ response[s].location.path = ""

C11_Witness ==
  \E s, t \in Subs :
    /\ FinalizeReturned(s) /\ internalRedirectUrlString[s] = ""
    /\ result[s].keys = {"consent", "login"}
    /\ response[s].status = 500
    /\ FinalizeReturned(t) /\ internalRedirectUrlString[t] = ""
    /\ result[t].keys = {"error", "error_description"}
    /\ response[t].status = 500


\* how often submission s made the call
Count(s, name) == Len(SelectSeq(calls[s], LAMBDA c : c = name))

\* the positions of the call in the calls of submission s
Positions(s, name) == {i \in DOMAIN calls[s] : calls[s][i] = name}

AddCalls == {"addOIDCScope", "addOIDCClaims", "addResourceScope"}

\* C12: an accepted consent prompt that reaches the finalize call has called
\* Grant.save exactly once, after all its addOIDCScope, addOIDCClaims and
\* addResourceScope calls and before the finalize call.
C12_SaveOnceAfterAdds ==
  \A s \in Subs :
    AcceptedConsentFinalized(s) =>
      /\ Count(s, "Grant.save") = 1
      /\ Count(s, "addOIDCScope") = 1
      /\ Count(s, "addOIDCClaims") = 1
      /\ \A i \in DOMAIN calls[s] :
           /\ calls[s][i] \in AddCalls => \A j \in Positions(s, "Grant.save") : i < j
           /\ calls[s][i] = "interactionResult" =>
                \A j \in Positions(s, "Grant.save") : j < i

C12_Witness ==
  \E s \in Subs :
    /\ AcceptedConsentFinalized(s)
    /\ calls[s] = <<"interactionDetails", "getUserAuth", "findOrCreateGrants",
                    "Grant.find", "addOIDCScope", "addOIDCClaims", "addResourceScope",
                    "Grant.save", "interactionResult">>
    /\ response[s].status = 303


\* the Grant of submission s is the one it loaded, not a new one
Reused(s) == found[s] # NullGrant /\ grant[s].jti = found[s].jti

AcceptedAuthenticated(s) ==
  /\ consent[s] = "accept"
  /\ DetailsLoaded(s)
  /\ userId[s] # ""
  /\ pc[s] \in {"authed", "granted", "saved", "done"}

\* C14: the Grant Reconciler runs only for the consent prompt: an accepted
\* submission whose prompt name is login or any further name finds,
\* constructs, adds to and saves no Grant.
C14_ReconcilerOnlyForConsent ==
  \A s \in Subs :
    (AcceptedAuthenticated(s) /\ details[s].prompt.name # "consent") =>
      /\ Range(calls[s]) \cap GrantCalls = {}
      /\ newGrantId[s] = ""

\* submission s ended in a JSON error
EndedInError(s) == pc[s] = "done" /\ response[s].status \in {400, 401, 500}

\* submission s wrote a Grant
Wrote(s) == newGrantId[s] # ""

\* C15 as stated: a submission that ends in 400, 401 or 500 has written no
\* Grant.
C15_ErrorsWriteNothing ==
  \A s \in Subs : EndedInError(s) => ~Wrote(s)

\* C15: a submission that ends in 400 or 401 has written no Grant, and one
\* that ends in 500 has written one only when the failure came after
\* Grant.save returned: at the finalize call or in handling its instruction.
\* Every Grant in the store that was not there at the start was written by
\* a submission.
C15_ErrorsAfterSave ==
  /\ \A s \in Subs :
       EndedInError(s) =>
         /\ response[s].status \in {400, 401} => ~Wrote(s) /\ ~Called(s, "Grant.save")
         /\ Wrote(s) =>
              /\ response[s].status = 500
              /\ response[s].error = "server_error"
              /\ Called(s, "interactionResult")
              /\ thrown[s].at \in {"", "interactionResult", "correctOIDCUrl"}
         /\ thrown[s].at \in {"formData", "initialize", "interactionDetails",
                              "getUserAuth", "Grant.find", "addOIDCScope", "Grant.save"}
              => ~Wrote(s)
  /\ \A g \in grants :
       g \in StoredGrants \/ \E s \in Subs : Wrote(s) /\ newGrantId[s] = g.jti

C15_Witness ==
  \E s \in Subs :
    /\ EndedInError(s)
    /\ Wrote(s)
    /\ response[s].status = 500
    /\ thrown[s].at = ""
    /\ internalRedirectUrlString[s] = "http://["
    /\ GrantFind(grants, newGrantId[s]) = grant[s]
    /\ GrantFind(grants, newGrantId[s]) \notin StoredGrants


\* C16: the grantId in the consent part of the result of an accepted consent
\* prompt, plain or combined, is the id the Grant.save call of that
\* submission returned: the id the saved Grant is stored under, a new one
\* when the Grant was constructed, and never the id of a Grant that was
\* loaded and dropped.
C16_ResultNamesSavedGrant ==
  \A s \in Subs :
    AcceptedConsentFinalized(s) =>
      /\ "consent" \in result[s].keys
      /\ Count(s, "Grant.save") = 1
      /\ result[s].consent.grantId # ""
      /\ result[s].consent.grantId = grant[s].jti
      /\ \E g \in grants : g.jti = result[s].consent.grantId
      /\ IF Reused(s)
         THEN result[s].consent.grantId = details[s].grantId
         ELSE /\ result[s].consent.grantId = "n" \o ToString(s)
              /\ result[s].consent.grantId # details[s].grantId
              /\ result[s].consent.grantId # found[s].jti

C16_Witness ==
  \E s, t \in Subs :
    /\ AcceptedConsentFinalized(s) /\ Reused(s)
    /\ result[s].keys = {"consent"} /\ result[s].consent.grantId = "g1"
    /\ AcceptedConsentFinalized(t) /\ ~Reused(t) /\ found[t].jti = "g1"
    /\ result[t].keys = {"consent", "login"}
    /\ result[t].consent.grantId = "n" \o ToString(t)


\* the tokens of the missing scopes, claims and resource scopes of the prompt
MissingScopeSet(d) == Range(OrElse(d.prompt.details.missingOIDCScope, <<>>))

MissingClaimSet(d) == Range(OrElse(d.prompt.details.missingOIDCClaims, <<>>))

MissingResourceSet(d, i) ==
  LET entries == OrElse(d.prompt.details.missingResourceScopes, <<>>)
  IN  UNION {Range(entries[k][2]) : k \in {k \in DOMAIN entries : entries[k][1] = i}}

\* Grant g holds what Grant f held and what the prompt of d misses, no more
HoldsUnion(g, f, d) ==
  /\ Range(g.scope) = Range(f.scope) \cup MissingScopeSet(d)
  /\ Range(g.claims) = Range(f.claims) \cup MissingClaimSet(d)
  /\ \A i \in Indicators :
       Range(g.resources[i]) = Range(f.resources[i]) \cup MissingResourceSet(d, i)

\* the step in which submission s saves its Grant
SaveStep(s) == pc[s] = "granted" /\ pc'[s] = "saved"

\* the submissions that saved the Grant they loaded under id
Savers(id) == {s \in Subs : Saved(s) /\ Reused(s) /\ newGrantId[s] = id}

\* C17: when submissions of one account load the same stored Grant before
\* either saves, the last save wins: each save stores the saver's Grant (what
\* it loaded united with what its own prompt misses) under the id it loaded,
\* over whatever another submission stored there in between, and leaves the
\* other Grants, the accountId and the clientId as they were; nothing but a
\* save changes the store.
C17_LastWriteWins ==
  [][/\ grants' # grants => \E s \in Subs : SaveStep(s)
     /\ \A s \in Subs :
          (SaveStep(s) /\ Reused(s)) =>
            /\ newGrantId'[s] = found[s].jti
            /\ GrantFind(grants', found[s].jti) = grant'[s]
            /\ HoldsUnion(grant'[s], found[s], details[s])
            /\ grant'[s].accountId = GrantFind(grants, found[s].jti).accountId
            /\ grant'[s].clientId = GrantFind(grants, found[s].jti).clientId
            /\ grant'[s].accountId = userId[s]
            /\ \A g \in grants' : g.jti # found[s].jti => g \in grants
    ]_vars

\* both loaded g1 as it was stored at first; the later save lost a claim of
\* the earlier one
C17_Witness ==
  \E s, t \in Subs :
    /\ s # t
    /\ {s, t} \subseteq Savers("g1")
    /\ found[s] = found[t] /\ found[s] \in StoredGrants
    /\ userId[s] = "A" /\ userId[t] = "A"
    /\ GrantFind(grants, "g1") = grant[t]
    /\ "email" \in Range(grant[s].claims)
    /\ "email" \notin Range(GrantFind(grants, "g1").claims)
    /\ "picture" \in Range(GrantFind(grants, "g1").claims)
    /\ pc[s] = "done" /\ pc[t] = "done"


\* the operations of the engine and of the Grant store that run once at most
\* (addResourceScope runs once per resource indicator)
OnceCalls ==
  {"interactionDetails", "getUserAuth", "findOrCreateGrants", "Grant.find",
   "new Grant", "addOIDCScope", "addOIDCClaims", "Grant.save", "interactionResult"}

\* the order in which a submission may reach its operations
CallRank(c) ==
  CASE c = "interactionDetails" -> 1
    [] c = "getUserAuth" -> 2
    [] c = "findOrCreateGrants" -> 3
    [] c = "Grant.find" -> 4
    [] c = "new Grant" -> 5
    [] c = "addOIDCScope" -> 6
    [] c = "addOIDCClaims" -> 7
    [] c = "addResourceScope" -> 8
    [] c = "Grant.save" -> 9
    [] c = "interactionResult" -> 10

IsPrefix(a, b) == Len(a) <= Len(b) /\ \A i \in DOMAIN a : a[i] = b[i]

\* C18: within one submission the operations run in sequence and none runs
\* again: interactionDetails is the first and runs once at most; the finalize
\* call runs once at most, is the last, comes after the details were loaded and
\* after any Grant.save, and carries the one result the submission built; an
\* operation that threw is the last one of the submission.
C18_SequentialNoRetry ==
  /\ [](\A s \in Subs :
          LET n == Len(calls[s])
          IN  /\ n > 0 => calls[s][1] = "interactionDetails"
              /\ \A i \in 1..(n - 1) :
                   \/ CallRank(calls[s][i]) < CallRank(calls[s][i + 1])
                   \/ /\ calls[s][i] = "addResourceScope"
                      /\ calls[s][i + 1] = "addResourceScope"
              /\ Called(s, "interactionResult") =>
                   /\ calls[s][n] = "interactionResult"
                   /\ details[s] # NoDetails
                   /\ thrown[s].at # "interactionDetails"
              /\ (result[s].keys # {}) = Called(s, "interactionResult")
              /\ thrown[s].at \in OnceCalls =>
                   /\ pc[s] = "done"
                   /\ calls[s][n] = thrown[s].at)
  /\ [][\A s \in Subs :
          \/ calls'[s] = calls[s] /\ result'[s] = result[s]
          \/ /\ IsPrefix(calls[s], calls'[s])
             /\ result[s].keys = {}
             /\ thrown[s].at = ""
       ]_vars

\* a consent that saved its Grant and whose finalize call threw: every
\* operation ran once
C18_Witness ==
  \E s \in Subs :
    /\ pc[s] = "done"
    /\ thrown[s].at = "interactionResult"
    /\ result[s].keys = {"consent"}
    /\ calls[s] = <<"interactionDetails", "getUserAuth", "findOrCreateGrants",
                    "Grant.find", "addOIDCScope", "addOIDCClaims", "addResourceScope",
                    "Grant.save", "interactionResult">>


AcceptedConsentPrompt(s) ==
  /\ DetailsLoaded(s)
  /\ consent[s] = "accept"
  /\ details[s].prompt.name = "consent"

\* an optional array that is undefined or holds nothing
Absent(x) == ~x.def \/ x.val = <<>>

SomeUndefined(d) ==
  \/ ~d.missingOIDCScope.def
  \/ ~d.missingOIDCClaims.def
  \/ ~d.missingResourceScopes.def

\* C19: in an accepted consent prompt an undefined missingOIDCScope,
\* missingOIDCClaims or missingResourceScopes counts as empty: the apply step
\* leaves the corresponding set of the Grant as it was, as an empty array does;
\* the step ends the submission only when addOIDCScope or Grant.save threw; the
\* Grant can be saved; and a submission no collaborator threw in saved once
\* and finalized with a consent result naming the saved Grant.
C19_UndefinedIsEmpty ==
  /\ [][\A s \in Subs :
          (pc[s] = "granted" /\ AcceptedConsentPrompt(s)) =>
            LET d == details[s].prompt.details
            IN  /\ Absent(d.missingOIDCScope) => grant'[s].scope = grant[s].scope
                /\ Absent(d.missingOIDCClaims) => grant'[s].claims = grant[s].claims
                /\ Absent(d.missingResourceScopes) =>
                     grant'[s].resources = grant[s].resources
                /\ pc'[s] = "done" =>
                     /\ thrown'[s].at \in {"addOIDCScope", "Grant.save"}
                     /\ thrown'[s].error = "other"
       ]_vars
  /\ [](\A s \in Subs :
          (AcceptedConsentPrompt(s) /\ SomeUndefined(details[s].prompt.details)) =>
            /\ pc[s] = "granted" => ENABLED (ApplyAndSave(s) /\ pc'[s] = "saved")
            /\ (pc[s] = "done" /\ userId[s] # "" /\ thrown[s].at = "") =>
                 /\ Count(s, "Grant.save") = 1
                 /\ Count(s, "interactionResult") = 1
                 /\ "consent" \in result[s].keys
                 /\ "error" \notin result[s].keys
                 /\ result[s].consent.grantId = newGrantId[s]
                 /\ newGrantId[s] # ""
                 /\ \E g \in grants : g.jti = newGrantId[s]
                 /\ internalRedirectUrlString[s] = "/cb?code=1" =>
                      response[s].status = 303)

\* the prompt misses a scope and names no claims: the saved Grant gained the
\* scope, kept its claims, and the submission was redirected
C19_Witness ==
  \E s \in Subs :
    /\ AcceptedConsentPrompt(s)
    /\ pc[s] = "done"
    /\ details[s].prompt.details.missingOIDCScope = Some(<<"profile">>)
    /\ ~details[s].prompt.details.missingOIDCClaims.def
    /\ found[s].jti = "g1"
    /\ "profile" \notin Range(found[s].scope)
    /\ "profile" \in Range(grant[s].scope)
    /\ grant[s].claims = found[s].claims
    /\ GrantFind(grants, "g1") = grant[s]
    /\ "consent" \in result[s].keys
    /\ response[s].status = 303


\* C20: a finalize call that returned a non-empty instruction ends in HTTP 500
\* server_error without a location when the instruction is no URL even against
\* the request origin or when the origin corrector threw, and otherwise in
\* HTTP 303 to the URL of the instruction moved to the public origin.
C20_RedirectOrInvalid ==
  \A s \in Subs :
    (FinalizeReturned(s) /\ internalRedirectUrlString[s] # "") =>
      IF internalRedirectUrlString[s] = "http://[" \/ thrown[s].at = "correctOIDCUrl"
      THEN /\ response[s].status = 500
           /\ response[s].error = "server_error"
           /\ response[s].error_description = "Invalid redirect URL from provider"
           /\ response[s].location = [origin |-> "", path |-> ""]
      ELSE /\ internalRedirectUrlString[s] = "/cb?code=1"
           /\ response[s].status = 303
           /\ response[s].error = ""
           /\ response[s].location = [origin |-> "https://public", path |-> "/cb?code=1"]

\* one submission got an instruction that is no URL, the other a path
C20_Witness ==
  \E s, t \in Subs :
    /\ FinalizeReturned(s) /\ internalRedirectUrlString[s] = "http://["
    /\ thrown[s].at = ""
    /\ response[s].status = 500
    /\ FinalizeReturned(t) /\ internalRedirectUrlString[t] = "/cb?code=1"
    /\ thrown[t].at = ""
    /\ response[t].status = 303
    /\ response[t].location.origin = "https://public"

====
